---- MODULE Spec2Model ----
(***************************************************************************)
(* A model of bchisham/http-simple, package service.                       *)
(*                                                                         *)
(*   Spec         the response pipeline of one request: the builder        *)
(*                (respond.go 81-99), Response.Send (respond.go 166-178)   *)
(*                and the producers (respond.go 17-64), with the task that *)
(*                feeds the stream's channel and the cancellation of the   *)
(*                request context running beside the handling task.        *)
(*   SpecService  the service lifecycle: NewService, Start and Stop called *)
(*                from several goroutines, and the requests the running    *)
(*                server answers.                                          *)
(*   SpecStream   the pipeline with the stream producer alone, under the   *)
(*                fairness of the handling task, for what the producer     *)
(*                eventually does.                                         *)
(***************************************************************************)
EXTENDS Integers, Sequences, FiniteSets, TLC

\* ---------------------------------------------------------------- bounds
\* Builder calls (WithStatus, WithHeader, WithBody, WithBodyFunc, Send) made
\* on the one builder of the request.
MaxCalls == 4
\* Chunks the feeding task sends on the channel.
MaxChunks == 2
\* Chunks that can wait in the channel (its buffer, or senders blocked on it).
ChanCap == 2
\* Goroutines that call Start and Stop on the one service.
NumProcs == 2

\* ------------------------------------------------------------- constants
StatusOK == 200
StatusNotFound == 404
StatusNotImplemented == 501
DefaultPort == 8080

Nil == "nil"
ErrContextDone == "ErrContextDone"
ErrWrite == "ErrWrite"
ErrMarshal == "ErrMarshal"
Pending == "pending"

\* Inputs of the builder calls.
Codes == {StatusOK, StatusNotFound}
HeaderVals == {"text/plain"}
NoHeader == ""
Bodies == {<<104, 105>>, <<111>>}
\* The k-th chunk the feeding task sends: chunks are told apart by content.
Chunk(k) == <<k>>
JsonVals == {"null", "chan"}
Empty == <<>>

VARIABLES
    \* --- the response pipeline
    calls,        \* the builder calls made so far, in order
    writer,       \* the http.ResponseWriter of the request
    bodyFunc,     \* responseBuilder.bodyFunc
    sendPc,       \* where the handling task is inside Send
    eachErr,      \* err of s.Each in the stream producer (respond.go 49)
    prodErr,      \* error returned by the last producer invocation
    prodBody,     \* bytes returned by the last producer invocation
    sendErr,      \* error returned by the last Send
    sendWrote,    \* the last Send reached its own Write (respond.go 172)
    invocations,  \* producer invocations so far
    ch,           \* chunks waiting in the channel
    chClosed,     \* the channel has been closed by the feeding task
    sent,         \* every chunk the feeding task has sent, in order
    ctxDone,      \* the request context is cancelled
    streamClosed, \* s.Close() has run (respond.go 41-46)
    \* --- the service
    svc,          \* "none" before NewService has returned, then "built"
    opts,         \* service.Options, with the state of the cert/key files
    sctx,         \* service.ctx
    cancelFunc,   \* service.cancelFunc
    smux,         \* service.mux: the patterns registered on it
    srvClosed,    \* s.srv has been closed (http.Server.Close)
    listeners,    \* goroutines whose ListenAndServe is accepting connections
    pc,           \* where each goroutine is inside Start or Stop
    fatal,        \* why the process was aborted, "" while it runs
    answered,     \* the requests answered by the server, with their responses
    started       \* a Start has gone past its check and no Stop has since

pvars == <<calls, writer, bodyFunc, sendPc, eachErr, prodErr, prodBody, sendErr,
           sendWrote, invocations, ch, chClosed, sent, ctxDone, streamClosed>>

svars == <<svc, opts, sctx, cancelFunc, smux, srvClosed, listeners, pc,
           fatal, answered, started>>

vars == <<pvars, svars>>

\* The bytes of a sequence of byte slices, one after the other.
RECURSIVE Concat(_)
Concat(q) == IF q = <<>> THEN <<>> ELSE Head(q) \o Concat(Tail(q))

\* ------------------------------------------------------------ producers
NilFunc == [kind |-> "nil", data |-> Empty, val |-> ""]

\* BinaryData(data): the producer returns data, nil.
BinaryData(data) == [kind |-> "binary", data |-> data, val |-> ""]

\* JSONData(v): the producer returns json.Marshal(v).
JSONData(v) == [kind |-> "json", data |-> Empty, val |-> v]

\* The producer returned by BinaryStreamData.
StreamFunc == [kind |-> "stream", data |-> Empty, val |-> ""]

\* json.Marshal: nil encodes as the four bytes of null, a channel value is
\* an unsupported type.
Marshal(v) ==
    IF v = "null" THEN [body |-> <<110, 117, 108, 108>>, err |-> Nil]
    ELSE [body |-> Empty, err |-> ErrMarshal]

\* A Send that keeps the body of an earlier invocation instead of invoking
\* the producer again.
Invoke_cached(f) ==
    IF invocations > 0 /\ writer.writes # <<>>
    THEN [body |-> writer.writes[Len(writer.writes)].data, err |-> Nil]
    ELSE IF f.kind = "binary" THEN [body |-> f.data, err |-> Nil]
    ELSE Marshal(f.val)

\* Invoking a producer that does not stream.
Invoke(f) ==
    IF f.kind = "binary" THEN [body |-> f.data, err |-> Nil]
    ELSE Marshal(f.val)

\* ------------------------------------------------------ response writer
InitWriter ==
    [hdr |-> NoHeader, wroteHeader |-> FALSE, status |-> 0,
     sentHdr |-> NoHeader, writes |-> <<>>]

\* Header().Set(key, value): the live header map.
HeaderSet(w, v) == [w EXCEPT !.hdr = v]

\* A WriteHeader that fixes the status and leaves the headers out.
WriteHeader_noHeaders(w, code) ==
    IF w.wroteHeader THEN w
    ELSE [w EXCEPT !.wroteHeader = TRUE, !.status = code]

\* WriteHeader(code): the first call fixes the status and the headers sent;
\* a later call is ignored.
WriteHeader(w, code) ==
    IF w.wroteHeader THEN w
    ELSE [w EXCEPT !.wroteHeader = TRUE, !.status = code, !.sentHdr = w.hdr]

\* Write(data): an implicit WriteHeader(200) when none was written, then the
\* bytes; ok is whether the transport took them.
WriterWrite(w, data, ok, by, inv) ==
    LET h == WriteHeader(w, StatusOK)
    IN [h EXCEPT !.writes = Append(h.writes,
            [data |-> data, ok |-> ok, by |-> by, inv |-> inv])]

\* ---------------------------------------------------------- builder calls
Call(op, code, val, body) == [op |-> op, code |-> code, val |-> val, body |-> body]

CanCall == sendPc = "idle" /\ Len(calls) < MaxCalls

\* responseBuilder.WithHeader
WithHeader(v) ==
    /\ CanCall
    /\ writer' = HeaderSet(writer, v)
    /\ calls' = Append(calls, Call("WithHeader", 0, v, Empty))
    /\ UNCHANGED <<bodyFunc, sendPc, eachErr, prodErr, prodBody, sendErr, sendWrote,
                   invocations, ch, chClosed, sent, ctxDone, streamClosed,
                   svars>>

\* responseBuilder.WithStatus
WithStatus(code) ==
    /\ CanCall
    /\ writer' = WriteHeader(writer, code)
    /\ calls' = Append(calls, Call("WithStatus", code, "", Empty))
    /\ UNCHANGED <<bodyFunc, sendPc, eachErr, prodErr, prodBody, sendErr, sendWrote,
                   invocations, ch, chClosed, sent, ctxDone, streamClosed,
                   svars>>

\* responseBuilder.WithBody
WithBody(b) ==
    /\ CanCall
    /\ bodyFunc' = BinaryData(b)
    /\ calls' = Append(calls, Call("WithBody", 0, "", b))
    /\ UNCHANGED <<writer, sendPc, eachErr, prodErr, prodBody, sendErr, sendWrote,
                   invocations, ch, chClosed, sent, ctxDone, streamClosed,
                   svars>>

\* responseBuilder.WithBodyFunc(JSONData(v))
WithBodyFuncJSON(v) ==
    /\ CanCall
    /\ bodyFunc' = JSONData(v)
    /\ calls' = Append(calls, Call("WithBodyFunc", 0, v, Empty))
    /\ UNCHANGED <<writer, sendPc, eachErr, prodErr, prodBody, sendErr, sendWrote,
                   invocations, ch, chClosed, sent, ctxDone, streamClosed,
                   svars>>

\* responseBuilder.WithBodyFunc(BinaryStreamData(ctx, request, ch)): building
\* the producer wraps the channel and, on return, runs the deferred s.Close().
WithBodyFuncStream ==
    /\ CanCall
    /\ bodyFunc' = StreamFunc
    /\ streamClosed' = TRUE
    /\ calls' = Append(calls, Call("WithBodyFunc", 0, "stream", Empty))
    /\ UNCHANGED <<writer, sendPc, eachErr, prodErr, prodBody, sendErr, sendWrote,
                   invocations, ch, chClosed, sent, ctxDone,
                   svars>>

\* ------------------------------------------------------------------ Send
\* A Send that goes on to its Write whatever the producer returned.
SendWritesBody_always(perr) == TRUE

\* respond.go 168-171: Send writes the body only when the producer returned
\* no error.
SendWritesBody(perr) == perr = Nil

\* The error Send returns: the producer's, else that of its own Write.
SendResult(perr, ok) ==
    IF perr # Nil THEN perr ELSE IF ok THEN Nil ELSE ErrWrite

\* respond.go 168-177, after the producer returned (body, perr) and left the
\* writer as w.
FinishSend(w, body, perr, inv) ==
    /\ sendPc' = "idle"
    /\ prodErr' = perr
    /\ prodBody' = body
    /\ IF SendWritesBody(perr)
       THEN \E ok \in BOOLEAN :
               /\ writer' = WriterWrite(w, body, ok, "send", inv)
               /\ sendErr' = SendResult(perr, ok)
               /\ sendWrote' = TRUE
       ELSE /\ writer' = w
            /\ sendErr' = SendResult(perr, TRUE)
            /\ sendWrote' = FALSE

\* Response.Send with a producer that does not stream: one step of the
\* handling task.
Send ==
    /\ CanCall
    /\ bodyFunc.kind \in {"binary", "json"}
    /\ calls' = Append(calls, Call("Send", 0, "", Empty))
    /\ invocations' = invocations + 1
    /\ LET r == Invoke(bodyFunc)
       IN FinishSend(writer, r.body, r.err, invocations + 1)
    /\ UNCHANGED <<bodyFunc, eachErr, ch, chClosed, sent, ctxDone, streamClosed,
                   svars>>

\* Response.Send on a builder that never had a producer installed
\* (Request.ResponseBuilder leaves bodyFunc nil): the call of the nil
\* function panics.
SendNil ==
    /\ CanCall
    /\ bodyFunc.kind = "nil"
    /\ calls' = Append(calls, Call("Send", 0, "", Empty))
    /\ sendPc' = "panic"
    /\ UNCHANGED <<writer, bodyFunc, eachErr, prodErr, prodBody, sendErr, sendWrote,
                   invocations, ch, chClosed, sent, ctxDone, streamClosed,
                   svars>>

\* Response.Send with the stream producer: the producer is invoked and
\* enters s.Each.
SendStream ==
    /\ CanCall
    /\ bodyFunc.kind = "stream"
    /\ calls' = Append(calls, Call("Send", 0, "", Empty))
    /\ invocations' = invocations + 1
    /\ sendPc' = "each"
    /\ eachErr' = Pending
    /\ prodErr' = Pending
    /\ prodBody' = Empty
    /\ sendErr' = Pending
    /\ sendWrote' = FALSE
    /\ UNCHANGED <<writer, bodyFunc, ch, chClosed, sent, ctxDone, streamClosed,
                   svars>>

\* ------------------------------------------------- the stream producer
\* A callback that logs the write error and returns nil.
CallbackErr_swallow(ok) == Nil

\* respond.go 50-55: the callback returns the error of its Write.
CallbackErr(ok) == IF ok THEN Nil ELSE ErrWrite

\* A producer that returns the error of Each as it is.
ProducerResult_raw(err) == err

\* respond.go 57-62: the context-done error of Each is turned into nil, any
\* other error is returned as it is.
ProducerResult(err) == IF err # Nil /\ err = ErrContextDone THEN Nil ELSE err

\* An Each that stops at the close of the channel with chunks still waiting.
EachAtEnd_early(q, closed) == closed

\* Each ends without error when the channel is closed and drained.
EachAtEnd(q, closed) == closed /\ q = <<>>

\* The chunks the callback has written in invocation inv, on writer w.
InvChunks(w, inv) ==
    LET q == SelectSeq(w.writes, LAMBDA e : e.by = "each" /\ e.inv = inv)
    IN [i \in 1..Len(q) |-> q[i].data]

\* A producer that returns the bytes it has streamed.
EndOfStream_chunks(written) == Concat(written)

\* respond.go 48, 59, 62: the producer returns endOfStream, a nil slice that
\* nothing is appended to, whatever chunks it has written.
EndOfStream(written) == Empty

\* An Each whose select has no case for the context.
CtxReady_never(done) == FALSE

\* respond.go 39, 49: the stream is bound to ctx, and the select of Each can
\* take the context's done signal once the context is cancelled.
CtxReady(done) == done

\* Each receives the next chunk and the callback writes it. A failed write
\* ends Each, the producer and Send.
EachRecv ==
    /\ sendPc = "each"
    /\ ch # <<>>
    /\ ch' = Tail(ch)
    /\ \E ok \in BOOLEAN :
         LET w1 == WriterWrite(writer, Head(ch), ok, "each", invocations)
             e  == CallbackErr(ok)
         IN IF e = Nil
            THEN /\ writer' = w1
                 /\ UNCHANGED <<sendPc, eachErr, prodErr, prodBody, sendErr, sendWrote>>
            ELSE /\ eachErr' = e
                 /\ FinishSend(w1, EndOfStream(InvChunks(w1, invocations)),
                            ProducerResult(e), invocations)
    /\ UNCHANGED <<calls, bodyFunc, invocations, chClosed, sent, ctxDone,
                   streamClosed,
                   svars>>

\* Each's select takes the context's done signal.
EachCtxDone ==
    /\ sendPc = "each"
    /\ CtxReady(ctxDone)
    /\ eachErr' = ErrContextDone
    /\ FinishSend(writer, EndOfStream(InvChunks(writer, invocations)),
                  ProducerResult(ErrContextDone), invocations)
    /\ UNCHANGED <<calls, bodyFunc, invocations, ch, chClosed, sent, ctxDone,
                   streamClosed,
                   svars>>

\* Each's receive finds the channel closed and drained.
EachEnd ==
    /\ sendPc = "each"
    /\ EachAtEnd(ch, chClosed)
    /\ eachErr' = Nil
    /\ FinishSend(writer, EndOfStream(InvChunks(writer, invocations)),
                  ProducerResult(Nil), invocations)
    /\ UNCHANGED <<calls, bodyFunc, invocations, ch, chClosed, sent, ctxDone,
                   streamClosed,
                   svars>>

\* ------------------------------------ the feeding task and the context
\* The channel and the context are those handed to BinaryStreamData; the
\* feeding task and the cancellation act from then on.
StreamBuilt == streamClosed

Feed ==
    /\ StreamBuilt
    /\ ~chClosed
    /\ Len(sent) < MaxChunks
    /\ Len(ch) < ChanCap
    /\ ch' = Append(ch, Chunk(Len(sent) + 1))
    /\ sent' = Append(sent, Chunk(Len(sent) + 1))
    /\ UNCHANGED <<calls, writer, bodyFunc, sendPc, eachErr, prodErr, prodBody, sendErr,
                   sendWrote, invocations, chClosed, ctxDone, streamClosed,
                   svars>>

CloseChan ==
    /\ StreamBuilt
    /\ ~chClosed
    /\ chClosed' = TRUE
    /\ UNCHANGED <<calls, writer, bodyFunc, sendPc, eachErr, prodErr, prodBody, sendErr,
                   sendWrote, invocations, ch, sent, ctxDone, streamClosed,
                   svars>>

Cancel ==
    /\ StreamBuilt
    /\ ~ctxDone
    /\ ctxDone' = TRUE
    /\ UNCHANGED <<calls, writer, bodyFunc, sendPc, eachErr, prodErr, prodBody, sendErr,
                   sendWrote, invocations, ch, chClosed, sent, streamClosed,
                   svars>>

\* ---------------------------------------------------------- the service
Procs == 1..NumProcs

\* Ports a caller passes to WithPort: the default, and 0 (any free port).
Ports == {DefaultPort, 0}

\* The cert and key files: readable and a valid pair, a file unreadable, or
\* readable files that are no valid key pair.
CertStates == {"good", "unreadable", "badpair"}

Paths == {"/health", "/", "/other"}
Methods == {"GET", "POST"}

\* NewService's defaults (part_000 145-150).
DefaultOptions ==
    [requireTLS |-> FALSE, disableHealth |-> FALSE, port |-> DefaultPort,
     cert |-> "good"]

\* Options.buildTLSConfig: the error of either ReadFile is returned; the
\* error of tls.X509KeyPair is dropped and a config is returned.
BuildTLSConfigErr(o) == o.cert = "unreadable"

\* Options.buildServer: fails only when TLS is required and buildTLSConfig
\* fails.
BuildServerErr(o) == o.requireTLS /\ BuildTLSConfigErr(o)

\* http.DefaultServeMux: this package registers nothing on it.
DefaultServeMux == {}

\* The handler the server dispatches to. buildServer leaves Handler unset
\* and Start never hands s.mux to s.srv, so the server uses
\* http.DefaultServeMux whatever was registered on m.
ServerHandler(m) == DefaultServeMux

\* handleHealth: status 200, body OK.
HandleHealth == [status |-> StatusOK, body |-> "OK"]

\* service.ServeHTTP: NotImplemented, that is http.Error(w, message, 501).
ServeHTTP == [status |-> StatusNotImplemented, body |-> "Not Implemented\n"]

\* http.NotFound, the answer of a ServeMux with no matching pattern.
NotFoundResponse == [status |-> StatusNotFound, body |-> "404 page not found\n"]

\* ServeMux dispatch over the patterns "/health" (that path only) and "/"
\* (every path).
Dispatch(patterns, path) ==
    IF path = "/health" /\ "/health" \in patterns THEN HandleHealth
    ELSE IF "/" \in patterns THEN ServeHTTP
    ELSE NotFoundResponse

\* The patterns Start registers on s.mux (part_000 212-216).
StartPatterns(o) == IF o.disableHealth THEN {"/"} ELSE {"/", "/health"}

\* A Start that calls ListenAndServe whatever requireTLS says.
UseTLS_never(o) == FALSE

\* part_000 217: Start calls ListenAndServeTLS when TLS is required, else
\* ListenAndServe.
UseTLS(o) == o.requireTLS

\* The error of ListenAndServe / ListenAndServeTLS when it returns at once,
\* "" when it goes on to accept connections: the server was closed; the
\* address is taken (by another process, busy, or by a listener of this
\* service on the same fixed port); the cert and key files do not load as a
\* key pair.
ListenErr(o, closed, others, busy) ==
    IF closed THEN "http: Server closed"
    ELSE IF busy \/ (o.port # 0 /\ others # {}) THEN "bind: address already in use"
    ELSE IF UseTLS(o) /\ o.cert # "good" THEN "tls: failed to load key pair"
    ELSE ""

\* log.Fatal and an unrecovered panic end the process: nothing runs after.
Running == fatal = ""

Abort(reason) ==
    /\ fatal' = reason
    /\ UNCHANGED <<svc, opts, sctx, cancelFunc, smux, srvClosed, listeners, pc,
                   answered, started, pvars>>

\* NewService(opts...): the options are applied and the server is built; an
\* error of buildServer is fatal.
NewService(o) ==
    /\ Running
    /\ svc = "none"
    /\ opts' = o
    /\ IF BuildServerErr(o)
       THEN fatal' = "buildServer" /\ svc' = svc
       ELSE fatal' = fatal /\ svc' = "built"
    /\ UNCHANGED <<sctx, cancelFunc, smux, srvClosed, listeners, pc, answered,
                   started, pvars>>

\* Start, part_000 207-209: the check of s.ctx.
StartCheck(p) ==
    /\ Running /\ svc = "built"
    /\ pc[p] = "idle"
    /\ IF sctx # "nil"
       THEN Abort("Service already started")
       ELSE /\ pc' = [pc EXCEPT ![p] = "start210"]
            /\ started' = TRUE
            /\ UNCHANGED <<svc, opts, sctx, cancelFunc, smux, srvClosed,
                           listeners, fatal, answered, pvars>>

\* Start, part_000 210: s.ctx is set to the background context.
StartBackground(p) ==
    /\ Running
    /\ pc[p] = "start210"
    /\ sctx' = "background"
    /\ pc' = [pc EXCEPT ![p] = "start211"]
    /\ UNCHANGED <<svc, opts, cancelFunc, smux, srvClosed, listeners, fatal,
                   answered, started, pvars>>

\* Start, part_000 211: s.ctx and s.cancelFunc are set by WithCancel.
StartContext(p) ==
    /\ Running
    /\ pc[p] = "start211"
    /\ sctx' = "cancelCtx"
    /\ cancelFunc' = "set"
    /\ pc' = [pc EXCEPT ![p] = "start212"]
    /\ UNCHANGED <<svc, opts, smux, srvClosed, listeners, fatal, answered,
                   started, pvars>>

\* Start, part_000 212-216: a new mux with the catch-all and, unless
\* disabled, the health handler.
StartMux(p) ==
    /\ Running
    /\ pc[p] = "start212"
    /\ smux' = StartPatterns(opts)
    /\ pc' = [pc EXCEPT ![p] = "start217"]
    /\ UNCHANGED <<svc, opts, sctx, cancelFunc, srvClosed, listeners, fatal,
                   answered, started, pvars>>

\* A Start that takes the close of the server for a normal end.
StartFatal_notClosed(e) == e \notin {"", "http: Server closed"}

\* part_000 218-225: a non-nil error of ListenAndServe[TLS] is fatal.
StartFatal(e) == e # ""

\* ListenAndServe[TLS] has returned e in goroutine p: log.Fatal, or else
\* Start returns to its caller.
StartEnds(p, e) ==
    IF StartFatal(e)
    THEN Abort(e)
    ELSE /\ pc' = [pc EXCEPT ![p] = "idle"]
         /\ UNCHANGED <<svc, opts, sctx, cancelFunc, smux, srvClosed,
                        listeners, fatal, answered, started, pvars>>

\* Start, part_000 217-226: ListenAndServe[TLS]; when it returns, its error
\* is fatal.
StartListen(p) ==
    /\ Running
    /\ pc[p] = "start217"
    /\ \E busy \in BOOLEAN :
         LET e == ListenErr(opts, srvClosed, listeners, busy)
         IN IF e # ""
            THEN StartEnds(p, e)
            ELSE /\ listeners' = listeners \cup {p}
                 /\ pc' = [pc EXCEPT ![p] = "serving"]
                 /\ UNCHANGED <<svc, opts, sctx, cancelFunc, smux, srvClosed,
                                fatal, answered, started, pvars>>

\* Start, part_000 218-225: the server was closed while this goroutine was
\* serving; ListenAndServe returns ErrServerClosed and log.Fatal ends the
\* process.
ServeReturns(p) ==
    /\ Running
    /\ pc[p] = "serving"
    /\ srvClosed
    /\ StartEnds(p, "http: Server closed")

\* Stop, part_000 232-234: the check of s.ctx.
StopCheck(p) ==
    /\ Running /\ svc = "built"
    /\ pc[p] = "idle"
    /\ IF sctx = "nil"
       THEN Abort("Service already stopped")
       ELSE /\ pc' = [pc EXCEPT ![p] = "stop235"]
            /\ started' = FALSE
            /\ UNCHANGED <<svc, opts, sctx, cancelFunc, smux, srvClosed,
                           listeners, fatal, answered, pvars>>

\* Stop, part_000 235-236: the context is cancelled and s.ctx reset. The
\* call of a cancelFunc that a Start has not set yet panics.
StopCancel(p) ==
    /\ Running
    /\ pc[p] = "stop235"
    /\ IF cancelFunc = "nil"
       THEN Abort("panic: nil cancelFunc")
       ELSE /\ sctx' = "nil"
            /\ pc' = [pc EXCEPT ![p] = "stop237"]
            /\ UNCHANGED <<svc, opts, cancelFunc, smux, srvClosed, listeners,
                           fatal, answered, started, pvars>>

\* Stop, part_000 237-239: s.srv.Close() closes every listener; Stop returns.
StopClose(p) ==
    /\ Running
    /\ pc[p] = "stop237"
    /\ srvClosed' = TRUE
    /\ listeners' = {}
    /\ pc' = [pc EXCEPT ![p] = "idle"]
    /\ UNCHANGED <<svc, opts, sctx, cancelFunc, smux, fatal, answered, started,
                   pvars>>

\* The server answers a request received on one of its listeners.
HandleRequest(m, path) ==
    /\ Running
    /\ listeners # {}
    /\ LET r == Dispatch(ServerHandler(smux), path)
       IN answered' = answered \cup
             {[method |-> m, path |-> path, status |-> r.status, body |-> r.body]}
    /\ UNCHANGED <<svc, opts, sctx, cancelFunc, smux, srvClosed, listeners, pc,
                   fatal, started, pvars>>

Init ==
    /\ calls = <<>>
    /\ writer = InitWriter
    /\ bodyFunc = NilFunc
    /\ sendPc = "idle"
    /\ eachErr = Nil
    /\ prodErr = Nil
    /\ prodBody = Empty
    /\ sendErr = Nil
    /\ sendWrote = FALSE
    /\ invocations = 0
    /\ ch = <<>>
    /\ chClosed = FALSE
    /\ sent = <<>>
    /\ ctxDone = FALSE
    /\ streamClosed = FALSE
    /\ svc = "none"
    /\ opts = DefaultOptions
    /\ sctx = "nil"
    /\ cancelFunc = "nil"
    /\ smux = {}
    /\ srvClosed = FALSE
    /\ listeners = {}
    /\ pc = [p \in Procs |-> "idle"]
    /\ fatal = ""
    /\ answered = {}
    /\ started = FALSE

Next ==
    \/ \E v \in HeaderVals : WithHeader(v)
    \/ \E c \in Codes : WithStatus(c)
    \/ \E b \in Bodies : WithBody(b)
    \/ \E v \in JsonVals : WithBodyFuncJSON(v)
    \/ WithBodyFuncStream
    \/ Send
    \/ SendNil
    \/ SendStream
    \/ EachRecv
    \/ EachCtxDone
    \/ EachEnd
    \/ Feed
    \/ CloseChan
    \/ Cancel

Spec == Init /\ [][Next]_vars

\* The options NewService is called with. The files matter only with TLS.
OptionSets ==
    {o \in [requireTLS : BOOLEAN, disableHealth : BOOLEAN, port : Ports,
             cert : CertStates] : ~o.requireTLS => o.cert = "good"}

ServiceNext ==
    \/ \E o \in OptionSets : NewService(o)
    \/ \E p \in Procs : StartCheck(p)
    \/ \E p \in Procs : StartBackground(p)
    \/ \E p \in Procs : StartContext(p)
    \/ \E p \in Procs : StartMux(p)
    \/ \E p \in Procs : StartListen(p)
    \/ \E p \in Procs : ServeReturns(p)
    \/ \E p \in Procs : StopCheck(p)
    \/ \E p \in Procs : StopCancel(p)
    \/ \E p \in Procs : StopClose(p)
    \/ \E m \in Methods : \E path \in Paths : HandleRequest(m, path)

SpecService == Init /\ [][ServiceNext]_vars

\* The pipeline with the stream producer alone, the handling task being
\* scheduled: a producer that can take a step of Each eventually takes one.
StreamNext ==
    \/ WithBodyFuncStream
    \/ SendStream
    \/ EachRecv
    \/ EachCtxDone
    \/ EachEnd
    \/ Feed
    \/ CloseChan
    \/ Cancel

ProducerStep == EachRecv \/ EachCtxDone \/ EachEnd

SpecStream == Init /\ [][StreamNext]_vars /\ WF_vars(ProducerStep)

\* ---------------------------------------------------- reading the state
Last(q) == q[Len(q)]

\* The Write calls made by the stream's callback, and by Send itself.
EachWrites == SelectSeq(writer.writes, LAMBDA e : e.by = "each")
SendWrites == SelectSeq(writer.writes, LAMBDA e : e.by = "send")

Data(q) == [i \in 1..Len(q) |-> q[i].data]

IsPrefix(p, q) == Len(p) <= Len(q) /\ \A i \in 1..Len(p) : p[i] = q[i]

AllWritesOk == \A i \in 1..Len(writer.writes) : writer.writes[i].ok

\* The body bytes the client received.
BodyBytes == Concat(Data(SelectSeq(writer.writes, LAMBDA e : e.ok)))

CountSends == Len(SelectSeq(calls, LAMBDA c : c.op = "Send"))

\* The last Send has returned.
Returned == sendPc = "idle" /\ calls # <<>> /\ Last(calls).op = "Send"

\* The last Send has returned and its producer was the stream producer.
StreamReturned == Returned /\ bodyFunc.kind = "stream"

C3_WriteFailureStops ==
    /\ \A i \in 1..Len(writer.writes) : \A j \in 1..Len(writer.writes) :
          (i < j /\ writer.writes[i].by = "each" /\ ~writer.writes[i].ok
                 /\ writer.writes[j].inv = writer.writes[i].inv)
            => writer.writes[j].by # "each"
    /\ (StreamReturned /\ \E i \in 1..Len(writer.writes) :
             /\ writer.writes[i].by = "each"
             /\ writer.writes[i].inv = invocations
             /\ ~writer.writes[i].ok)
          => prodErr = ErrWrite /\ eachErr = ErrWrite

C3_Witness ==
    /\ StreamReturned /\ prodErr = ErrWrite
    /\ EachWrites # <<>> /\ ~Last(EachWrites).ok
    /\ Last(EachWrites).inv = invocations
    /\ ch # <<>>

\* C4: when the producer returned an error, Send returned that error and
\* did not reach its own Write: no Write of that Send is on the writer.
C4_ProducerErrorNoWrite ==
    (Returned /\ prodErr # Nil)
       => /\ sendErr = prodErr
          /\ ~sendWrote
          /\ \A i \in 1..Len(writer.writes) :
                ~(writer.writes[i].by = "send" /\ writer.writes[i].inv = invocations)

C4_Witness ==
    /\ Returned /\ prodErr = ErrMarshal /\ sendErr = ErrMarshal
    /\ writer.writes # <<>>

\* The last call that installed a producer.
RECURSIVE LastInstall(_)
LastInstall(q) ==
    IF q = <<>> THEN Call("none", 0, "", Empty)
    ELSE IF Last(q).op \in {"WithBody", "WithBodyFunc"} THEN Last(q)
    ELSE LastInstall(SubSeq(q, 1, Len(q) - 1))

\* C5: n calls of Send on a builder with a producer installed are n producer
\* invocations, and a Send whose producer was installed by WithBody(b)
\* writes b, not the body of an earlier invocation.
C5_SendInvokesEachTime ==
    /\ sendPc # "panic" => invocations = CountSends
    /\ (Returned /\ sendWrote /\ LastInstall(calls).op = "WithBody")
          => Last(writer.writes).data = LastInstall(calls).body

C5_Witness ==
    /\ Returned /\ sendWrote /\ CountSends = 2 /\ invocations = 2
    /\ Len(writer.writes) = 2
    /\ writer.writes[1].data # writer.writes[2].data

\* The calls of the end-to-end scenario, status first and header first.
StatusFirst(c, v, b) ==
    <<Call("WithStatus", c, "", Empty), Call("WithHeader", 0, v, Empty),
      Call("WithBody", 0, "", b), Call("Send", 0, "", Empty)>>

HeaderFirst(c, v, b) ==
    <<Call("WithHeader", 0, v, Empty), Call("WithStatus", c, "", Empty),
      Call("WithBody", 0, "", b), Call("Send", 0, "", Empty)>>

\* C6 as claimed: after WithStatus(code), WithHeader(k, v), WithBody(b), Send
\* with the Write succeeding, the response carries status code, header
\* k = v and body b, and Send returned nil.
C6_Original ==
    \A c \in Codes : \A v \in HeaderVals : \A b \in Bodies :
       (calls = StatusFirst(c, v, b) /\ sendPc = "idle" /\ AllWritesOk)
          => /\ writer.status = c
             /\ writer.sentHdr = v
             /\ BodyBytes = b
             /\ sendErr = Nil

\* C6 as amended: in that order the response carries status code and body b
\* and Send returned nil, and the header, set on the writer's map after the
\* status was written, is not in the response; with WithHeader before
\* WithStatus the response carries the header too.
C6_Amended ==
    \A c \in Codes : \A v \in HeaderVals : \A b \in Bodies :
       /\ (calls = StatusFirst(c, v, b) /\ sendPc = "idle" /\ AllWritesOk)
             => /\ writer.status = c
                /\ writer.hdr = v /\ writer.sentHdr = NoHeader
                /\ BodyBytes = b /\ Len(writer.writes) = 1
                /\ sendErr = Nil
       /\ (calls = HeaderFirst(c, v, b) /\ sendPc = "idle" /\ AllWritesOk)
             => /\ writer.status = c
                /\ writer.sentHdr = v
                /\ BodyBytes = b /\ Len(writer.writes) = 1
                /\ sendErr = Nil

C6_Witness ==
    /\ \E c \in Codes : \E v \in HeaderVals : \E b \in Bodies :
          calls = StatusFirst(c, v, b)
    /\ sendPc = "idle" /\ AllWritesOk /\ sendErr = Nil
    /\ writer.status = StatusNotFound

\* The routes registered beside the catch-all.
RegisteredRoutes == StartPatterns(opts) \ {"/"}

\* C7 as claimed: with the health handler not disabled, every GET /health
\* the started service's server answers has status 200 and body OK.
C7_HealthAnswersOK ==
    \A r \in answered :
       (~opts.disableHealth /\ r.method = "GET" /\ r.path = "/health")
          => r.status = StatusOK /\ r.body = "OK"

\* C8 as claimed: every request the started service's server answers whose
\* path matches no registered route (/health included when its handler is
\* disabled) has status 501 and the Not Implemented message.
C8_UnmatchedNotImplemented ==
    \A r \in answered :
       r.path \notin RegisteredRoutes
          => r.status = StatusNotImplemented /\ r.body = "Not Implemented\n"

\* C9 as claimed: in every interleaving, a Start that finds the service
\* started (a Start went past its check, no Stop since) does not go on, a
\* Stop that finds it not started does not go on; so no second Start goes
\* past its check between two Stops.
C9_NoDoubleStartStop ==
    [][\A p \in Procs :
          /\ (pc[p] = "idle" /\ started) => pc'[p] # "start210"
          /\ (pc[p] = "idle" /\ ~started) => pc'[p] # "stop235"
      ]_vars

\* C10: with TLS required and the cert/key material bad, no goroutine ever
\* serves and no request is answered: with a file unreadable NewService
\* aborts and the service is never built, with readable files that are no
\* key pair the service is built and no Start gets past its listen call.
C10_BadTLSNeverServes ==
    (opts.requireTLS /\ opts.cert # "good")
       => /\ listeners = {}
          /\ answered = {}
          /\ \A p \in Procs : pc[p] # "serving"
          /\ opts.cert = "unreadable" => (svc = "none" /\ fatal = "buildServer")

C10_Witness ==
    /\ opts.requireTLS /\ opts.cert = "badpair"
    /\ svc = "built"
    /\ fatal = "tls: failed to load key pair"
    /\ \E p \in Procs : pc[p] = "start217"

\* C11 as claimed: the stream's iterator is open while the producer drains
\* chunks, it has been released when the invocation has returned, and it is
\* never released before the producer has been invoked.
C11_IteratorReleasedAtReturn ==
    /\ sendPc = "each" => ~streamClosed
    /\ StreamReturned => streamClosed
    /\ streamClosed => invocations > 0

\* The producer a call of WithBody or WithBodyFunc installs.
ProducerOf(c) ==
    IF c.op = "WithBody" THEN BinaryData(c.body)
    ELSE IF c.op = "WithBodyFunc" /\ c.val = "stream" THEN StreamFunc
    ELSE IF c.op = "WithBodyFunc" THEN JSONData(c.val)
    ELSE NilFunc

\* C12 as claimed: the builder holds the producer of the most recent
\* WithBody or WithBodyFunc call, and every Send finds a producer
\* installed: none is made on a builder without one.
C12_OneProducerAtSend ==
    /\ bodyFunc = ProducerOf(LastInstall(calls))
    /\ \A i \in 1..Len(calls) :
          calls[i].op = "Send" => LastInstall(SubSeq(calls, 1, i - 1)).op # "none"
    /\ sendPc # "panic"

\* C13: an invocation of the stream producer whose context is cancelled
\* eventually returns, whether or not the feeding task ever sends or closes;
\* so does one whose channel is closed.
C13_ProducerReturns ==
    /\ (sendPc = "each" /\ ctxDone) ~> (sendPc # "each")
    /\ (sendPc = "each" /\ chClosed) ~> (sendPc # "each")

C13_Witness ==
    /\ StreamReturned /\ eachErr = ErrContextDone
    /\ sent = <<>> /\ ~chClosed
    /\ invocations = 1

\* The Write calls of the last invocation.
InvWrites == SelectSeq(writer.writes, LAMBDA e : e.inv = invocations)

InvSendWrites == SelectSeq(InvWrites, LAMBDA e : e.by = "send")

\* C14 as claimed: the stream producer returns an empty payload whatever
\* the outcome, and the Send using it has made the Writes of the streamed
\* chunks followed by one empty Write.
C14_Original ==
    StreamReturned
       => /\ prodBody = Empty
          /\ InvWrites # <<>>
          /\ Last(InvWrites).by = "send" /\ Last(InvWrites).data = Empty
          /\ \A i \in 1..(Len(InvWrites) - 1) : InvWrites[i].by = "each"

\* C14 as amended: the stream producer returns an empty payload whatever
\* the outcome; when it returned nil the Send has made the Writes of the
\* streamed chunks followed by one empty Write, when a chunk Write failed
\* the Send has made no Write of its own; in both cases the bytes handed to
\* the writer are those of the chunks, none twice.
C14_EmptyPayload ==
    StreamReturned
       => /\ prodBody = Empty
          /\ Len(InvSendWrites) = (IF prodErr = Nil THEN 1 ELSE 0)
          /\ \A i \in 1..Len(InvWrites) :
                IF i = Len(InvWrites) /\ prodErr = Nil
                THEN InvWrites[i].by = "send" /\ InvWrites[i].data = Empty
                ELSE InvWrites[i].by = "each"
          /\ Concat(Data(InvWrites)) = Concat(InvChunks(writer, invocations))
          /\ IsPrefix(Data(EachWrites), sent)

C14_Witness ==
    /\ StreamReturned /\ prodErr = Nil /\ prodBody = Empty
    /\ Len(InvWrites) = 3
    /\ Last(InvWrites).by = "send" /\ Last(InvWrites).data = Empty
    /\ Concat(Data(InvWrites)) = Concat(sent)

\* A goroutine inside Start.
InStart == {"start210", "start211", "start212", "start217", "serving"}

\* C15: Start never returns to its caller: a goroutine inside Start stays
\* inside it until the process is aborted, and the close of the server by a
\* Stop of another goroutine ends a serving Start in the abort.
C15_StartNeverReturns ==
    [][\A p \in Procs :
          /\ pc[p] \in InStart => pc'[p] \in InStart
          /\ (pc[p] = "serving" /\ fatal = "" /\ fatal' # "")
                => fatal' \in {"http: Server closed", "Service already started",
                               "Service already stopped", "panic: nil cancelFunc",
                               "bind: address already in use",
                               "tls: failed to load key pair"}
      ]_vars

C15_Witness ==
    /\ fatal = "http: Server closed"
    /\ srvClosed
    /\ \E p \in Procs : \E q \in Procs :
          p # q /\ pc[p] = "serving" /\ pc[q] = "idle"
====
